---- MODULE Spec2Model ----
(***************************************************************************)
(* Sidekick: auto-currying engine (examples/experiments/function-calling   *)
(* notebook, curry and curry_kw) and the fn composition operators          *)
(* (documented in README.rst and docs/).                                   *)
(*                                                                         *)
(* A curried function is the closure returned by incomplete_factory; every *)
(* closure is an entry of `heap` holding the values it closes over.        *)
(* Calling a closure either calls the underlying callable or allocates a   *)
(* new closure.                                                            *)
(***************************************************************************)
EXTENDS Integers, Sequences, FiniteSets, TLC

VARIABLES
    prog,    \* the curried program: the callable, the arity, curry or curry_kw
    heap,    \* the closures made by incomplete_factory
    last,    \* the latest call of a closure, as its caller saw it
    fns,     \* the fn objects: wrapped callables and compositions
    flast    \* the latest call of an fn object

vars == <<prog, heap, last, fns, flast>>

----------------------------------------------------------------------------
(* Bounds *)

\* largest number of closures alive (the root included)
MaxObjs == 3
\* largest number of fn objects alive (the wrapped callables included)
MaxFns == 4
\* largest number of fn objects alive when every operator is available
MaxOps == 3
\* largest number of functions given to pipe, pipeline or compose
MaxPipeLen == 3

Vals == {0, 1}
Names == {"z"}
KwVals == {1, 2}

\* the positional arguments of one call: at most n of them
ArgTuples(n) == UNION {[1..k -> Vals] : k \in 0..n}
KwMaps == UNION {[D -> KwVals] : D \in SUBSET Names}
EmptyKw == [k \in {} |-> 0]

Range(s) == {s[i] : i \in DOMAIN s}

RECURSIVE SumSeq(_)
SumSeq(s) == IF Len(s) = 0 THEN 0 ELSE s[1] + SumSeq(Tail(s))

----------------------------------------------------------------------------
(* The underlying callables, taken from the documentation and the notebook *)

Funcs == {"impl", "vadd", "g", "div"}

\* declared positional parameters
Params(f) ==
    CASE f = "impl"    -> <<"x", "y">>
      [] f = "vadd"    -> <<"x", "y">>
      [] f = "g"       -> <<"x", "y", "z">>
      [] f = "div"     -> <<"x", "y">>

\* has a *args collector
Variadic(f) == f = "vadd"

Value(v) == [kind |-> "value", val |-> v]
Raise(e) == [kind |-> "raise", exc |-> e]
Deferred(r) == [kind |-> "deferred", ref |-> r]

\* x / y, kept exact: an integer when y divides x
Ratio(x, y) == IF x % y = 0 THEN x \div y ELSE [num |-> x, den |-> y]

\* the function body, run once the parameters are bound
Body(f, a) ==
    CASE f = "impl"    -> Value(a[1] + a[2])
      [] f = "vadd"    -> Value(SumSeq(a))
      [] f = "g"       -> Value(<<a[1], a[2], a[3]>>)
      [] f = "div"     -> IF a[2] = 0 THEN Raise("ZeroDivisionError")
                          ELSE Value(Ratio(a[1], a[2]))

\* Python's call protocol: func(*args, **kw)
func_call(f, args, kw) ==
    LET ps       == Params(f)
        np       == Len(ps)
        npos     == IF Len(args) < np THEN Len(args) ELSE np
        posNames == {ps[i] : i \in 1..npos}
        full     == [i \in 1..np |-> IF i <= npos THEN args[i] ELSE
                                     IF ps[i] \in DOMAIN kw THEN kw[ps[i]] ELSE 0]
                    \o SubSeq(args, np + 1, Len(args))
    IN  IF Len(args) > np /\ ~Variadic(f) THEN Raise("TypeError")
        ELSE IF \E k \in DOMAIN kw : k \notin Range(ps) THEN Raise("TypeError")
        ELSE IF DOMAIN kw \cap posNames # {} THEN Raise("TypeError")
        ELSE IF \E i \in 1..np : ps[i] \notin posNames \cup DOMAIN kw THEN Raise("TypeError")
        ELSE Body(f, full)

----------------------------------------------------------------------------
(* curry / curry_kw *)

\* args + used_args
ConcatArgsSwapped(used_args, args) == args \o used_args

\* used_args + args
ConcatArgs(used_args, args) == used_args \o args

\* len(used_args) + len(args) > arity
EnoughStrict(used_args, args, arity) == Len(used_args) + Len(args) > arity

\* len(used_args) + len(args) >= arity - 1
EnoughEarly(used_args, args, arity) == Len(used_args) + Len(args) >= arity - 1

\* len(used_args) + len(args) == arity
EnoughExact(used_args, args, arity) == Len(used_args) + Len(args) = arity

\* a call without arguments passes too
EnoughOrEmpty(used_args, args, arity) ==
    Len(args) = 0 \/ Len(used_args) + Len(args) >= arity

\* len(used_args) + len(args) >= arity
Enough(used_args, args, arity) == Len(used_args) + Len(args) >= arity

\* {**used_kwargs, **kwargs}
MergeKw(used_kwargs, kwargs) ==
    [k \in DOMAIN used_kwargs \cup DOMAIN kwargs |->
        IF k \in DOMAIN kwargs THEN kwargs[k] ELSE used_kwargs[k]]

\* a call of a closure that did not call the underlying callable
NoCall == <<>>

\* try: func(*(used_args + args)); except TypeError: return a closure
curry_apply_catching(f, used_args, args) ==
    LET all == ConcatArgs(used_args, args)
        r   == func_call(f, all, EmptyKw)
    IN  [out |-> IF r = Raise("TypeError") THEN Deferred(0) ELSE r,
         calls |-> <<[args |-> all, kwargs |-> EmptyKw]>>]

\* func(*(used_args + args))
curry_apply(f, used_args, args) ==
    LET all == ConcatArgs(used_args, args)
    IN  [out |-> func_call(f, all, EmptyKw),
         calls |-> <<[args |-> all, kwargs |-> EmptyKw]>>]

\* func(*(used_args + args), **used_kwargs, **kwargs): a name present in both
\* mappings is rejected by the call expression before func is entered
curry_kw_apply(f, used_args, args, used_kwargs, kwargs) ==
    LET all == ConcatArgs(used_args, args)
    IN  IF DOMAIN used_kwargs \cap DOMAIN kwargs # {}
        THEN [out |-> Raise("TypeError"), calls |-> NoCall]
        ELSE [out |-> func_call(f, all, MergeKw(used_kwargs, kwargs)),
              calls |-> <<[args |-> all, kwargs |-> MergeKw(used_kwargs, kwargs)]>>]

\* incomplete_factory(arity, used_args [, used_kwargs]): a new closure.
\* trail is the history of the chain of calls that led to it, which the code
\* does not read: the positional arguments in the order they were supplied,
\* the latest value supplied for each name, and the closure that was called.
Closure(used_args, used_kwargs, trail) ==
    [used_args |-> used_args, used_kwargs |-> used_kwargs, trail |-> trail]

Trail(supplied, named, parent) ==
    [supplied |-> supplied, named |-> named, parent |-> parent]

\* the history after one more call
Supplied(c, args) == c.trail.supplied \o args

Named(c, kwargs) ==
    [k \in DOMAIN c.trail.named \cup DOMAIN kwargs |->
        IF k \in DOMAIN kwargs THEN kwargs[k] ELSE c.trail.named[k]]

\* the called closure is updated in place
AllocInPlace(h, p, obj) == [h EXCEPT ![p] = obj]

\* the closure made by incomplete_factory is a new object
Alloc(h, p, obj) == Append(h, obj)

Root == 1

----------------------------------------------------------------------------
(* fn objects and their operators *)

\* arguments of the calls of fn objects
X == {-2, 0, 10}

\* the wrapped callables: op.mul(4) and op.add(2)
BaseNames == <<"mul4", "add2">>

\* the functions given to pipe, pipeline and compose: the same, and the fn
\* object itself, which is the identity
PipeNames == {"mul4", "add2", "fn"}

BaseBody(name, x) ==
    CASE name = "mul4" -> x * 4
      [] name = "add2" -> x + 2
      [] name = "fn"   -> x

\* Python's truth value of a number
Truthy(v) == v # 0

\* an fn object: a wrapped callable (op = "fn") or the result of an operator
\* applied to the fn objects l and r
Wrapped(name) == [op |-> "fn", name |-> name, l |-> 0, r |-> 0]
Composed(op, l, r) == [op |-> op, name |-> "", l |-> l, r |-> r]

\* both operands are called in the order written
OrderAsWritten(op, l, r) == <<l, r>>

\* the right operand is always called first
OrderRightFirst(op, l, r) == <<r, l>>

\* the operands of a composition in the order they are called: f >> g calls
\* f first, g << f calls f first, f | g calls f first
Order(op, l, r) == IF op = "<<" THEN <<r, l>> ELSE <<l, r>>

\* the second operand of | is always called
ShortCircuitNever(v) == FALSE

\* f | g does not call g when f's result is truthy
ShortCircuit(v) == Truthy(v)

\* the second operand of & is always called
ShortCircuitAndNever(v) == FALSE

\* f & g does not call g when f's result is falsy
ShortCircuitAnd(v) == ~Truthy(v)

\* f(x) or g(x), both called
or_value(a, b) == IF Truthy(a) \/ Truthy(b) THEN 1 ELSE 0

\* f ^ g: true when exactly one of f(x), g(x) is truthy (True is 1, False is 0)
xor_value(a, b) == IF Truthy(a) # Truthy(b) THEN 1 ELSE 0

\* ~f: not f(x)
not_value(v) == IF Truthy(v) THEN 0 ELSE 1

\* one call of a wrapped callable
Invoked(name, x) == [name |-> name, arg |-> x]

\* calling the fn object n of h with x: the result and the calls of the
\* wrapped callables it made, in order
RECURSIVE fn_call(_, _, _)
fn_call(h, n, x) ==
    LET nd == h[n]
    IN  IF nd.op = "fn"
        THEN [out |-> BaseBody(nd.name, x), trace |-> <<Invoked(nd.name, x)>>]
        ELSE LET ord == Order(nd.op, nd.l, nd.r)
                 a   == fn_call(h, ord[1], x)
             IN  IF nd.op = "|"
                 THEN IF ShortCircuit(a.out) THEN a
                      ELSE LET b == fn_call(h, ord[2], x)
                           IN  [out |-> b.out, trace |-> a.trace \o b.trace]
                 ELSE IF nd.op = "&"
                 THEN IF ShortCircuitAnd(a.out) THEN a
                      ELSE LET b == fn_call(h, ord[2], x)
                           IN  [out |-> b.out, trace |-> a.trace \o b.trace]
                 ELSE IF nd.op = "^"
                 THEN LET b == fn_call(h, ord[2], x)
                      IN  [out |-> xor_value(a.out, b.out),
                           trace |-> a.trace \o b.trace]
                 ELSE IF nd.op = "~"
                 THEN [out |-> not_value(a.out), trace |-> a.trace]
                 ELSE LET b == fn_call(h, ord[2], a.out)
                      IN  [out |-> b.out, trace |-> a.trace \o b.trace]

NoFns == <<>>

----------------------------------------------------------------------------
(* pipe, pipeline and compose *)

\* the function pipeline(*funcs) or compose(*funcs)
Pipelined(op, funcs) == [op |-> op, funcs |-> funcs]

Front(s) == SubSeq(s, 1, Len(s) - 1)

Reversed(s) == [i \in 1..Len(s) |-> s[Len(s) + 1 - i]]

RECURSIVE apply(_, _)

\* the functions are applied from the last to the first
RECURSIVE pipe_backwards(_, _)
pipe_backwards(x, funcs) ==
    IF funcs = <<>> THEN [out |-> x, trace |-> <<>>]
    ELSE LET a == apply(funcs[Len(funcs)], x)
             b == pipe_backwards(a.out, Front(funcs))
         IN  [out |-> b.out, trace |-> a.trace \o b.trace]

\* pipe(x, *funcs): x is passed to the first function, its result to the
\* second, and so on
RECURSIVE pipe(_, _)
pipe(x, funcs) ==
    IF funcs = <<>> THEN [out |-> x, trace |-> <<>>]
    ELSE LET a == apply(Head(funcs), x)
             b == pipe(a.out, Tail(funcs))
         IN  [out |-> b.out, trace |-> a.trace \o b.trace]

\* a composition whose first function is itself a composition is run as a
\* pipeline
apply_nested_first(f, x) ==
    IF f.op = "fn"
    THEN [out |-> BaseBody(f.name, x), trace |-> <<Invoked(f.name, x)>>]
    ELSE IF f.funcs = <<>> THEN [out |-> x, trace |-> <<>>]
    ELSE IF f.op = "pipeline" \/ Head(f.funcs).op = "compose"
    THEN LET a == apply(Pipelined("pipeline", Front(f.funcs)), x)
             b == apply(f.funcs[Len(f.funcs)], a.out)
         IN  [out |-> b.out, trace |-> a.trace \o b.trace]
    ELSE LET a == apply(Pipelined("compose", Tail(f.funcs)), x)
             b == apply(Head(f.funcs), a.out)
         IN  [out |-> b.out, trace |-> a.trace \o b.trace]

\* f(x) for a wrapped callable, a pipeline (the last function is applied to
\* what the pipeline of the others returns) or a composition (the first
\* function is applied to what the composition of the others returns)
apply(f, x) ==
    IF f.op = "fn"
    THEN [out |-> BaseBody(f.name, x), trace |-> <<Invoked(f.name, x)>>]
    ELSE IF f.funcs = <<>> THEN [out |-> x, trace |-> <<>>]
    ELSE IF f.op = "pipeline"
    THEN LET a == apply(Pipelined("pipeline", Front(f.funcs)), x)
             b == apply(f.funcs[Len(f.funcs)], a.out)
         IN  [out |-> b.out, trace |-> a.trace \o b.trace]
    ELSE LET a == apply(Pipelined("compose", Tail(f.funcs)), x)
             b == apply(Head(f.funcs), a.out)
         IN  [out |-> b.out, trace |-> a.trace \o b.trace]

----------------------------------------------------------------------------
(* arity inference, partial application, placeholders *)

\* largest number of required and of defaulted parameters of a signature
MaxParams == 2

\* the declared parameters of a callable, in order: required positional
\* ones, positional ones with a default, then *args and **kwargs
ParamList(required, defaults, varargs, varkw) ==
    [i \in 1..required |-> "required"] \o [i \in 1..defaults |-> "default"]
    \o (IF varargs THEN <<"varargs">> ELSE <<>>)
    \o (IF varkw THEN <<"varkw">> ELSE <<>>)

Signatures ==
    {ParamList(r, d, va, vk) :
        r \in 0..MaxParams, d \in 0..MaxParams, va \in BOOLEAN, vk \in BOOLEAN}

\* every declared parameter counts
arity_declared(params) == Len(params)

\* sk.arity(func): the required positional parameters
RECURSIVE arity(_)
arity(params) ==
    IF params = <<>> THEN 0
    ELSE (IF Head(params) = "required" THEN 1 ELSE 0) + arity(Tail(params))

\* a partial application that waits for the missing arguments
partial_call_currying(f, bound, args) ==
    IF Len(bound) + Len(args) < Len(Params(f))
    THEN [out |-> Deferred(0), calls |-> NoCall]
    ELSE [out |-> func_call(f, bound \o args, EmptyKw),
          calls |-> <<[args |-> bound \o args, kwargs |-> EmptyKw]>>]

\* sk.partial(f, *bound)(*args): f is called with the bound arguments
\* followed by the call's
partial_call(f, bound, args) ==
    [out |-> func_call(f, bound \o args, EmptyKw),
     calls |-> <<[args |-> bound \o args, kwargs |-> EmptyKw]>>]

\* the placeholder object _
Placeholder == -1

BracketVals == {1, 2, 3}

\* what is written between the brackets of g[...]
Templates ==
    UNION {[1..k -> BracketVals \cup {Placeholder}] : k \in 0..Len(Params("g"))}

HasPlaceholder(template) == \E i \in DOMAIN template : template[i] = Placeholder

\* only the first placeholder receives the argument
FillFirst(template, x) ==
    [i \in DOMAIN template |->
        IF template[i] = Placeholder
           /\ \A j \in 1..(i - 1) : template[j] # Placeholder
        THEN x ELSE template[i]]

\* the argument is passed to every position marked by the placeholder
Fill(template, x) ==
    [i \in DOMAIN template |-> IF template[i] = Placeholder THEN x ELSE template[i]]

\* f[template](x): with placeholders a function of a single argument;
\* without them a partial application, which follows the auto-currying rule
bracket_call(f, template, x) ==
    IF HasPlaceholder(template)
    THEN func_call(f, Fill(template, x), EmptyKw)
    ELSE IF Len(template) + 1 < Len(Params(f)) THEN Deferred(0)
    ELSE func_call(f, template \o <<x>>, EmptyKw)

\* wrapped callables, and compositions of two of them
FnValues ==
    {Wrapped(n) : n \in PipeNames} \cup
    {Pipelined("compose", <<Wrapped(a), Wrapped(b)>>) : a, b \in PipeNames}

\* the argument lists of pipe, pipeline and compose
FnSeqs == UNION {[1..k -> {Wrapped(n) : n \in PipeNames}] : k \in 0..MaxPipeLen}

\* curry(n, func) and curry_kw(n, func) as the documentation and the notebook
\* use them
Programs ==
    { [func |-> "impl",    arity |-> 2, kw |-> FALSE],
      [func |-> "vadd",    arity |-> 2, kw |-> FALSE],
      [func |-> "g",       arity |-> 3, kw |-> FALSE],
      [func |-> "div",     arity |-> 2, kw |-> FALSE],
      [func |-> "g",       arity |-> 2, kw |-> FALSE] }

KwPrograms ==
    { [func |-> "g", arity |-> 2, kw |-> TRUE] }

TypeOK ==
    /\ prog \in Programs \cup KwPrograms
    /\ Len(heap) \in 0..MaxObjs
    /\ Len(fns) \in 0..MaxFns

\* return incomplete_factory(n, ())
Init ==
    /\ prog \in Programs
    /\ heap = <<Closure(<<>>, EmptyKw, Trail(<<>>, EmptyKw, 0))>>
    /\ last = [target |-> 0]
    /\ fns = NoFns
    /\ flast = [target |-> 0]

\* return incomplete_factory(n, (), {})
InitKw ==
    /\ prog \in KwPrograms
    /\ heap = <<Closure(<<>>, EmptyKw, Trail(<<>>, EmptyKw, 0))>>
    /\ last = [target |-> 0]
    /\ fns = NoFns
    /\ flast = [target |-> 0]

\* one call of a closure, as the caller sees it
Called(p, args, kwargs, trail, out, calls) ==
    [target |-> p, args |-> args, kwargs |-> kwargs, trail |-> trail,
     out |-> out, calls |-> calls]

\* calling a closure made by curry: lambda *args
CallCurry(p, args) ==
    /\ ~prog.kw
    /\ LET c  == heap[p]
           tr == Trail(Supplied(c, args), EmptyKw, p)
       IN  IF Enough(c.used_args, args, prog.arity)
           THEN LET r == curry_apply(prog.func, c.used_args, args)
                IN  /\ heap' = heap
                    /\ last' = Called(p, args, EmptyKw, tr, r.out, r.calls)
           ELSE /\ Len(heap) < MaxObjs
                /\ heap' = Alloc(heap, p,
                                 Closure(ConcatArgs(c.used_args, args), EmptyKw, tr))
                /\ last' = Called(p, args, EmptyKw, tr,
                                  Deferred(Len(heap) + 1), NoCall)
    /\ UNCHANGED <<prog, fns, flast>>

\* calling a closure made by curry_kw: lambda *args, **kwargs
CallCurryKw(p, args, kwargs) ==
    /\ prog.kw
    /\ LET c  == heap[p]
           tr == Trail(Supplied(c, args), Named(c, kwargs), p)
       IN  IF Enough(c.used_args, args, prog.arity)
           THEN LET r == curry_kw_apply(prog.func, c.used_args, args,
                                        c.used_kwargs, kwargs)
                IN  /\ heap' = heap
                    /\ last' = Called(p, args, kwargs, tr, r.out, r.calls)
           ELSE /\ Len(heap) < MaxObjs
                /\ heap' = Alloc(heap, p,
                                 Closure(ConcatArgs(c.used_args, args),
                                         MergeKw(c.used_kwargs, kwargs), tr))
                /\ last' = Called(p, args, kwargs, tr,
                                  Deferred(Len(heap) + 1), NoCall)
    /\ UNCHANGED <<prog, fns, flast>>

\* a call supplies up to one positional argument more than the arity
CurryInputs == [n \in {q.arity : q \in Programs} |-> ArgTuples(n + 1)]

\* a call supplies up to arity positional arguments and any named ones
KwInputs == [n \in {q.arity : q \in KwPrograms} |-> ArgTuples(n)]

Next ==
    \E p \in 1..Len(heap), args \in CurryInputs[prog.arity] : CallCurry(p, args)

NextKw ==
    \E p \in 1..Len(heap), args \in KwInputs[prog.arity], kwargs \in KwMaps :
        CallCurryKw(p, args, kwargs)

Spec == Init /\ [][Next]_vars

SpecKw == InitKw /\ [][NextKw]_vars

\* the wrapped callables exist; no closure of curry is involved
InitFn ==
    /\ prog = [func |-> "impl", arity |-> 2, kw |-> FALSE]
    /\ heap = <<>>
    /\ last = [target |-> 0]
    /\ fns = [i \in 1..Len(BaseNames) |-> Wrapped(BaseNames[i])]
    /\ flast = [target |-> 0]

\* an operator that calls its left operand while building the function
ComposeEager(op, f, g) ==
    /\ Len(fns) < MaxFns
    /\ fns' = Append(fns, Composed(op, f, g))
    /\ LET r == fn_call(fns, f, 0)
       IN  flast' = [target |-> f, arg |-> 0, out |-> r.out, trace |-> r.trace]
    /\ UNCHANGED <<prog, heap, last>>

\* an operator makes a new fn object and calls nothing
Compose(op, f, g) ==
    /\ Len(fns) < MaxFns
    /\ fns' = Append(fns, Composed(op, f, g))
    /\ UNCHANGED <<prog, heap, last, flast>>

\* f >> g
RShift(f, g) == Compose(">>", f, g)

\* g << f
LShift(g, f) == Compose("<<", g, f)

\* f | g
Or(f, g) == Compose("|", f, g)

\* n(x)
CallFn(n, x) ==
    /\ LET r == fn_call(fns, n, x)
       IN  flast' = [target |-> n, arg |-> x, out |-> r.out, trace |-> r.trace]
    /\ UNCHANGED <<prog, heap, last, fns>>

NextFn ==
    \/ \E f, g \in 1..Len(fns) : RShift(f, g)
    \/ \E f, g \in 1..Len(fns) : LShift(g, f)
    \/ \E f, g \in 1..Len(fns) : Or(f, g)
    \/ \E n \in 1..Len(fns), x \in X : CallFn(n, x)

SpecFn == InitFn /\ [][NextFn]_vars

\* f & g
And(f, g) == Compose("&", f, g)

\* f ^ g
Xor(f, g) == Compose("^", f, g)

\* ~f
Not(f) == Compose("~", f, 0)

\* the whole operator set, over fewer fn objects
NextOps ==
    \/ /\ Len(fns) < MaxOps
       /\ \/ \E f, g \in 1..Len(fns) : RShift(f, g)
          \/ \E f, g \in 1..Len(fns) : LShift(g, f)
          \/ \E f, g \in 1..Len(fns) : Or(f, g)
          \/ \E f, g \in 1..Len(fns) : And(f, g)
          \/ \E f, g \in 1..Len(fns) : Xor(f, g)
          \/ \E f \in 1..Len(fns) : Not(f)
    \/ \E n \in 1..Len(fns), x \in X : CallFn(n, x)

SpecOps == InitFn /\ [][NextOps]_vars

----------------------------------------------------------------------------
(* The cy class of the notebook: heap holds cy objects and the lambdas their
   calls return *)

\* cy(arity, func) as the notebook makes them
CyArities == {2, 3}
CyFuncs == {"impl", "g"}

\* __init__: self.func = func; self.arity = arity
cy_init(n, func) == [kind |-> "cy", func |-> func, arity |-> n]

\* lambda y: f(x, y)
cy_lambda(f, x) == [kind |-> "lambda", func |-> f, x |-> x]

\* the object counts down the arguments it still waits for
cy_after_call_counting(self, args) ==
    [self EXCEPT !.arity = self.arity - Len(args)]

\* __call__ assigns no attribute of self
cy_after_call(self, args) == self

\* nothing wrapped yet
InitCy ==
    /\ prog = [func |-> "impl", arity |-> 2, kw |-> FALSE]
    /\ heap = <<>>
    /\ last = [target |-> 0]
    /\ fns = NoFns
    /\ flast = [target |-> 0]

\* cy(n, func); given is the arity the caller passed, which the code does
\* not read
CyWrap(n, func) ==
    /\ Len(heap) < MaxObjs
    /\ heap' = Append(heap, cy_init(n, func) @@ [given |-> n])
    /\ last' = [target |-> 0, made |-> Len(heap) + 1]
    /\ UNCHANGED <<prog, fns, flast>>

\* cy.__call__(self, *args)
CyCall(p, args) ==
    /\ heap[p].kind = "cy"
    /\ LET self  == heap[p]
           n     == Len(args)
           after == [heap EXCEPT ![p] = cy_after_call(self, args)]
       IN  IF n >= 2
           THEN /\ heap' = after
                /\ last' = [target |-> p, args |-> args,
                            out |-> func_call(self.func, args, EmptyKw)]
           ELSE IF n = 1
           THEN /\ Len(heap) < MaxObjs
                /\ heap' = Append(after, cy_lambda(self.func, args[1]))
                /\ last' = [target |-> p, args |-> args,
                            out |-> Deferred(Len(heap) + 1)]
           ELSE /\ heap' = after
                /\ last' = [target |-> p, args |-> args, out |-> Raise("TypeError")]
    /\ UNCHANGED <<prog, fns, flast>>

\* calling the lambda y: f(x, y) that cy.__call__ returned
CyLambdaCall(p, args) ==
    /\ heap[p].kind = "lambda"
    /\ last' = [target |-> p, args |-> args,
                out |-> IF Len(args) # 1 THEN Raise("TypeError")
                        ELSE func_call(heap[p].func, <<heap[p].x, args[1]>>, EmptyKw)]
    /\ UNCHANGED <<prog, heap, fns, flast>>

NextCy ==
    \/ \E n \in CyArities, func \in CyFuncs : CyWrap(n, func)
    \/ \E p \in 1..Len(heap), args \in ArgTuples(2) : CyCall(p, args)
    \/ \E p \in 1..Len(heap), args \in ArgTuples(2) : CyLambdaCall(p, args)

SpecCy == InitCy /\ [][NextCy]_vars

----------------------------------------------------------------------------
(* sk.once: heap holds the functions wrapped with once *)

\* the wrapped bodies: initialize() returns the same value at every run,
\* lst.pop() a different one
OnceBodies == {"initialize", "pop"}

\* the value a body returns at its run number `run`
once_body(name, run) ==
    CASE name = "initialize" -> 1
      [] name = "pop"        -> 4 - run

\* sk.once(body): not called yet; runs counts the runs of the body
once_init(body) == [kind |-> "once", body |-> body, done |-> FALSE, value |-> 0,
                    runs |-> 0]

\* the body runs at every call
once_call_always(self) ==
    [self |-> [self EXCEPT !.done = TRUE,
                           !.value = once_body(self.body, self.runs + 1),
                           !.runs = self.runs + 1],
     out |-> once_body(self.body, self.runs + 1), ran |-> TRUE]

\* a call: the first one runs the body and keeps its value, the others
\* return the value kept
once_call(self) ==
    IF self.done
    THEN [self |-> self, out |-> self.value, ran |-> FALSE]
    ELSE [self |-> [self EXCEPT !.done = TRUE,
                                !.value = once_body(self.body, self.runs + 1),
                                !.runs = self.runs + 1],
          out |-> once_body(self.body, self.runs + 1), ran |-> TRUE]

InitOnce ==
    /\ prog = [func |-> "impl", arity |-> 2, kw |-> FALSE]
    /\ heap = <<>>
    /\ last = [target |-> 0]
    /\ fns = NoFns
    /\ flast = [target |-> 0]

\* @sk.once; calls is the number of calls made so far, capped at 2, which the
\* wrapper does not read
OnceWrap(body) ==
    /\ Len(heap) < MaxObjs
    /\ heap' = Append(heap, once_init(body) @@ [calls |-> 0, first |-> 0])
    /\ last' = [target |-> 0, made |-> Len(heap) + 1]
    /\ UNCHANGED <<prog, fns, flast>>

\* a call of a function wrapped with once
OnceCall(p) ==
    /\ LET old == heap[p]
           r   == once_call([kind |-> old.kind, body |-> old.body, done |-> old.done,
                             value |-> old.value, runs |-> old.runs])
           nth == IF old.calls < 2 THEN old.calls + 1 ELSE 2
       IN  /\ heap' = [heap EXCEPT ![p] =
                          r.self @@ [calls |-> nth,
                                     first |-> IF old.calls = 0 THEN r.out
                                               ELSE old.first]]
           /\ last' = [target |-> p, out |-> r.out, ran |-> r.ran, nth |-> nth]
    /\ UNCHANGED <<prog, fns, flast>>

NextOnce ==
    \/ \E body \in OnceBodies : OnceWrap(body)
    \/ \E p \in 1..Len(heap) : OnceCall(p)

SpecOnce == InitOnce /\ [][NextOnce]_vars

----------------------------------------------------------------------------
(* Expressions evaluated on their own: flast is the latest one *)

InitExpr ==
    /\ prog = [func |-> "impl", arity |-> 2, kw |-> FALSE]
    /\ heap = <<>>
    /\ last = [target |-> 0]
    /\ fns = NoFns
    /\ flast = [target |-> 0]

Evaluated(kind, fields) == [target |-> 0, kind |-> kind] @@ fields

\* sk.pipe(x, *funcs)
CallPipe(x, funcs) ==
    /\ LET r == pipe(x, funcs)
       IN  flast' = Evaluated("pipe", [funcs |-> funcs, arg |-> x,
                                       out |-> r.out, trace |-> r.trace])
    /\ UNCHANGED <<prog, heap, last, fns>>

\* sk.pipeline(*funcs)(x)
CallPipeline(funcs, x) ==
    /\ LET r == apply(Pipelined("pipeline", funcs), x)
       IN  flast' = Evaluated("pipeline", [funcs |-> funcs, arg |-> x,
                                           out |-> r.out, trace |-> r.trace])
    /\ UNCHANGED <<prog, heap, last, fns>>

\* sk.compose(*funcs)(x)
CallCompose(funcs, x) ==
    /\ LET r == apply(Pipelined("compose", funcs), x)
       IN  flast' = Evaluated("compose", [funcs |-> funcs, arg |-> x,
                                          out |-> r.out, trace |-> r.trace])
    /\ UNCHANGED <<prog, heap, last, fns>>

\* sk.compose(f, g)(x), where f and g may be compositions themselves
CallNested(f, g, x) ==
    /\ LET r == apply(Pipelined("compose", <<f, g>>), x)
       IN  flast' = Evaluated("nested", [funcs |-> <<f, g>>, arg |-> x,
                                         out |-> r.out, trace |-> r.trace])
    /\ UNCHANGED <<prog, heap, last, fns>>

\* sk.arity(func), func declared with these parameters
InferArity(params) ==
    /\ flast' = Evaluated("arity", [params |-> params, out |-> arity(params)])
    /\ UNCHANGED <<prog, heap, last, fns>>

\* sk.partial(f, *bound)(*args)
CallPartial(f, bound, args) ==
    /\ LET r == partial_call(f, bound, args)
       IN  flast' = Evaluated("partial", [func |-> f, bound |-> bound, args |-> args,
                                          out |-> r.out, calls |-> r.calls])
    /\ UNCHANGED <<prog, heap, last, fns>>

\* g[template](x)
CallBracket(template, x) ==
    /\ flast' = Evaluated("bracket", [template |-> template, arg |-> x,
                                      out |-> bracket_call("g", template, x)])
    /\ UNCHANGED <<prog, heap, last, fns>>

NextExpr ==
    \/ \E x \in X, funcs \in FnSeqs : CallPipe(x, funcs)
    \/ \E x \in X, funcs \in FnSeqs : CallPipeline(funcs, x)
    \/ \E x \in X, funcs \in FnSeqs : CallCompose(funcs, x)
    \/ \E x \in X, f, g \in FnValues : CallNested(f, g, x)
    \/ \E params \in Signatures : InferArity(params)
    \/ \E f \in Funcs, bound \in ArgTuples(2) \ {<<>>}, args \in ArgTuples(2) :
          CallPartial(f, bound, args)
    \/ \E template \in Templates, x \in BracketVals : CallBracket(template, x)

SpecExpr == InitExpr /\ [][NextExpr]_vars

----------------------------------------------------------------------------
(* Currying: claims *)

\* some closure has been called
HasCalled == last.target # 0

\* the one call F(*args, **kwargs) on the curried function itself
Single(args, kwargs) == [args |-> args, kwargs |-> kwargs]

\* C1: when the positional arguments supplied over a chain of calls number
\* exactly the arity, the last call of the chain returns what the single call
\* F(*all) returns, and the underlying callable receives the arguments in the
\* order they were supplied.
C1_SplitEqualsSingleCall ==
    (HasCalled /\ Len(last.trail.supplied) = prog.arity) =>
        /\ last.out = func_call(prog.func, last.trail.supplied, EmptyKw)
        /\ last.calls = <<Single(last.trail.supplied, EmptyKw)>>

\* g(1)(0)(1) has returned (1, 0, 1)
C1_Witness ==
    /\ prog = [func |-> "g", arity |-> 3, kw |-> FALSE]
    /\ HasCalled
    /\ last.target = 3
    /\ heap[3].trail.parent = 2
    /\ heap[2].used_args = <<1>>
    /\ heap[3].used_args = <<1, 0>>
    /\ last.args = <<1>>
    /\ last.out = Value(<<1, 0, 1>>)

\* C2: a call of the curried function with at least arity positional
\* arguments calls the underlying callable exactly once, with exactly the
\* positional and named arguments of the call, and returns its result.
C2_EnoughArgsCallsOnce ==
    (HasCalled /\ last.target = Root /\ Len(last.args) >= prog.arity) =>
        /\ last.calls = <<Single(last.args, last.kwargs)>>
        /\ last.out = func_call(prog.func, last.args, last.kwargs)
        /\ last.out.kind # "deferred"

\* curry_kw(2, g)(1, 0, z=2) has returned (1, 0, 2)
C2_Witness ==
    /\ HasCalled
    /\ last.target = Root
    /\ last.args = <<1, 0>>
    /\ last.kwargs = [k \in {"z"} |-> 2]
    /\ last.calls = <<Single(<<1, 0>>, [k \in {"z"} |-> 2])>>
    /\ last.out = Value(<<1, 0, 2>>)

\* C3: while fewer than arity positional arguments have been supplied over a
\* chain, each call returns a new closure and the underlying callable is not
\* called; it is called by the call that brings the count to arity or more
\* (so no closure of the heap has seen it called).
C3_DeferredUntilArity ==
    /\ \A p \in 1..Len(heap) : Len(heap[p].trail.supplied) < prog.arity
    /\ HasCalled =>
          IF Len(last.trail.supplied) < prog.arity
          THEN /\ last.out = Deferred(Len(heap))
               /\ last.out.ref > last.target
               /\ heap[last.out.ref].trail.parent = last.target
               /\ last.calls = NoCall
          ELSE /\ last.out.kind # "deferred"
               /\ Len(last.calls) = 1

\* g(1)(0) is a closure and g has not been called
C3_Witness ==
    /\ prog = [func |-> "g", arity |-> 3, kw |-> FALSE]
    /\ HasCalled
    /\ last.target = 2
    /\ heap[2].used_args = <<1>>
    /\ last.args = <<0>>
    /\ last.out = Deferred(3)
    /\ last.calls = NoCall

\* C4: over a variadic callable, a call of the curried function with more
\* than arity positional arguments calls the callable at once with all of
\* them, and a call with fewer returns a closure.
C4_VariadicExtraArgs ==
    (HasCalled /\ Variadic(prog.func) /\ last.target = Root) =>
        /\ Len(last.args) > prog.arity =>
              /\ last.calls = <<Single(last.args, EmptyKw)>>
              /\ last.out = Value(SumSeq(last.args))
        /\ Len(last.args) < prog.arity =>
              /\ last.out.kind = "deferred"
              /\ last.calls = NoCall

\* add(1, 0, 1) over lambda x, y, *args has returned 2
C4_Witness ==
    /\ prog = [func |-> "vadd", arity |-> 2, kw |-> FALSE]
    /\ HasCalled
    /\ last.target = Root
    /\ last.args = <<1, 0, 1>>
    /\ last.out = Value(2)

\* C5: the underlying callable receives, for every name supplied over the
\* chain, the latest value supplied for it, also when the completing call
\* supplies a name again.
C5_LatestNamedValueReachesCallable ==
    (HasCalled /\ Len(last.trail.supplied) >= prog.arity) =>
        /\ Len(last.calls) = 1
        /\ last.calls[1].kwargs = last.trail.named

\* the call F(*bound, *own, **boundkw, **ownkw) written out in full
FullApplication(f, bound, own, boundkw, ownkw) ==
    IF DOMAIN boundkw \cap DOMAIN ownkw # {} THEN Raise("TypeError")
    ELSE func_call(f, bound \o own,
                   [k \in DOMAIN boundkw \cup DOMAIN ownkw |->
                       IF k \in DOMAIN boundkw THEN boundkw[k] ELSE ownkw[k]])

\* C6: a call of a closure P changes no closure; its result is the full
\* application of P's bound arguments followed by the call's own, whatever
\* calls of P came before, and a closure it returns binds exactly those.
C6_ClosuresImmutable ==
    [][ /\ Len(heap') >= Len(heap)
        /\ \A p \in 1..Len(heap) : heap'[p] = heap[p]
        /\ LET P == heap[last'.target]
           IN  IF last'.out.kind = "deferred"
               THEN /\ last'.out.ref \in (Len(heap) + 1)..Len(heap')
                    /\ heap'[last'.out.ref].used_args = P.used_args \o last'.args
                    /\ DOMAIN heap'[last'.out.ref].used_kwargs =
                          DOMAIN P.used_kwargs \cup DOMAIN last'.kwargs
               ELSE last'.out = FullApplication(prog.func, P.used_args, last'.args,
                                                P.used_kwargs, last'.kwargs)
      ]_vars

\* P = g(z=1) was called as P(1), which made a closure, and then as P(0, 1),
\* which returned (0, 1, 1); P still binds z=1 and nothing else
C6_Witness ==
    /\ prog.kw
    /\ HasCalled
    /\ Len(heap) = 3
    /\ heap[2] = Closure(<<>>, [k \in {"z"} |-> 1],
                         Trail(<<>>, [k \in {"z"} |-> 1], Root))
    /\ heap[3].trail.parent = 2
    /\ heap[3].used_args = <<1>>
    /\ last.target = 2
    /\ last.args = <<0, 1>>
    /\ last.out = Value(<<0, 1, 1>>)

\* C7: when enough positional arguments have been supplied and the
\* underlying callable fails on them, the call fails with that failure,
\* after one call of the callable.
C7_FailurePropagates ==
    (/\ HasCalled
     /\ Len(last.trail.supplied) >= prog.arity
     /\ func_call(prog.func, last.trail.supplied, EmptyKw).kind = "raise") =>
        /\ last.out = func_call(prog.func, last.trail.supplied, EmptyKw)
        /\ Len(last.calls) = 1

\* curry(2, impl)(1)(0, 1) has raised impl's TypeError
C7_Witness ==
    /\ prog = [func |-> "impl", arity |-> 2, kw |-> FALSE]
    /\ HasCalled
    /\ last.target = 2
    /\ last.trail.supplied = <<1, 0, 1>>
    /\ last.out = Raise("TypeError")

\* div(1)(0) has raised ZeroDivisionError
C7_WitnessOwnFailure ==
    /\ prog.func = "div"
    /\ last.target = 2
    /\ HasCalled
    /\ last.out = Raise("ZeroDivisionError")

----------------------------------------------------------------------------
(* fn operators: claims *)

HasCalledFn == flast.target # 0

IsWrapped(n) == fns[n].op = "fn"

\* C8: (f >> g)(x) calls f on x, then g on f's result, and returns g(f(x));
\* f1 >> f2 >> f3 calls f1, f2, f3 in that order.
C8_ForwardCompose ==
    (HasCalledFn /\ fns[flast.target].op = ">>") =>
        LET f == fns[flast.target].l
            g == fns[flast.target].r
            x == flast.arg
            a == fn_call(fns, f, x)
            b == fn_call(fns, g, a.out)
        IN  /\ flast.out = b.out
            /\ flast.trace = a.trace \o b.trace
            /\ (IsWrapped(f) /\ IsWrapped(g)) =>
                  LET fx == BaseBody(fns[f].name, x)
                  IN  /\ flast.out = BaseBody(fns[g].name, fx)
                      /\ flast.trace = <<Invoked(fns[f].name, x),
                                         Invoked(fns[g].name, fx)>>
            /\ (/\ fns[f].op = ">>" /\ IsWrapped(g)
                /\ IsWrapped(fns[f].l) /\ IsWrapped(fns[f].r)) =>
                  LET n1 == fns[fns[f].l].name
                      n2 == fns[fns[f].r].name
                      n3 == fns[g].name
                      y1 == BaseBody(n1, x)
                      y2 == BaseBody(n2, y1)
                  IN  /\ flast.out = BaseBody(n3, y2)
                      /\ flast.trace = <<Invoked(n1, x), Invoked(n2, y1),
                                         Invoked(n3, y2)>>

\* (mul4 >> add2 >> mul4)(10) has called mul4(10), add2(40), mul4(42)
C8_Witness ==
    /\ HasCalledFn
    /\ Len(fns) = 4
    /\ fns[3] = Composed(">>", 1, 2)
    /\ fns[4] = Composed(">>", 3, 1)
    /\ flast.target = 4
    /\ flast.arg = 10
    /\ flast.out = 168
    /\ flast.trace = <<Invoked("mul4", 10), Invoked("add2", 40), Invoked("mul4", 42)>>

\* C9: (g << f)(x) is (f >> g)(x) is g(f(x)): same result, same calls.
C9_BackwardCompose ==
    (HasCalledFn /\ fns[flast.target].op = "<<") =>
        LET g   == fns[flast.target].l
            f   == fns[flast.target].r
            x   == flast.arg
            fwd == fn_call(Append(fns, Composed(">>", f, g)), Len(fns) + 1, x)
            a   == fn_call(fns, f, x)
            b   == fn_call(fns, g, a.out)
        IN  /\ flast.out = fwd.out
            /\ flast.trace = fwd.trace
            /\ flast.out = b.out
            /\ flast.trace = a.trace \o b.trace

\* (add2 << mul4)(10) has returned 42
C9_Witness ==
    /\ HasCalledFn
    /\ fns[flast.target] = Composed("<<", 2, 1)
    /\ flast.arg = 10
    /\ flast.out = 42
    /\ flast.trace = <<Invoked("mul4", 10), Invoked("add2", 40)>>

C10_WitnessFalsy ==
    /\ HasCalledFn
    /\ fns[flast.target] = Composed("|", 1, 2)
    /\ flast.arg = 0
    /\ flast.out = 2
    /\ flast.trace = <<Invoked("mul4", 0), Invoked("add2", 0)>>

\* C11: (f & g)(x) calls f(x) first; it calls g(x), after f, exactly when
\* f(x) is truthy; the result is truthy iff f(x) and g(x) both are.
C11_AndShortCircuits ==
    (HasCalledFn /\ fns[flast.target].op = "&") =>
        LET f == fns[flast.target].l
            g == fns[flast.target].r
            x == flast.arg
            a == fn_call(fns, f, x)
            b == fn_call(fns, g, x)
        IN  /\ flast.trace = IF Truthy(a.out) THEN a.trace \o b.trace ELSE a.trace
            /\ Truthy(flast.out) <=> (Truthy(a.out) /\ Truthy(b.out))
            /\ (IsWrapped(f) /\ IsWrapped(g)) =>
                  flast.trace =
                      IF Truthy(BaseBody(fns[f].name, x))
                      THEN <<Invoked(fns[f].name, x), Invoked(fns[g].name, x)>>
                      ELSE <<Invoked(fns[f].name, x)>>

\* (mul4 & add2)(0) has called mul4(0), falsy, and nothing else
C11_Witness ==
    /\ HasCalledFn
    /\ fns[flast.target] = Composed("&", 1, 2)
    /\ flast.arg = 0
    /\ flast.out = 0
    /\ flast.trace = <<Invoked("mul4", 0)>>

\* (mul4 & add2)(10) has called mul4(10), truthy, and then add2(10)
C11_WitnessTruthy ==
    /\ HasCalledFn
    /\ fns[flast.target] = Composed("&", 1, 2)
    /\ flast.arg = 10
    /\ flast.out = 12
    /\ flast.trace = <<Invoked("mul4", 10), Invoked("add2", 10)>>

\* C12: building a function with an operator calls nothing (the record of the
\* latest call is untouched), leaves every existing fn object as it was and
\* adds one new fn object; a call is recorded only by a step that calls an fn
\* object, and such a step builds nothing.
C12_OperatorsPureAndLazy ==
    [][ /\ (fns' # fns) =>
             /\ flast' = flast
             /\ Len(fns') = Len(fns) + 1
             /\ \A n \in 1..Len(fns) : fns'[n] = fns[n]
             /\ fns'[Len(fns')].op \in {">>", "<<", "|", "&", "^", "~"}
        /\ (flast' # flast) =>
             /\ fns' = fns
             /\ flast'.target \in 1..Len(fns)
      ]_vars

\* mul4 ^ add2 has been built and nothing has been called
C12_Witness ==
    /\ Len(fns) = 3
    /\ fns[1] = Wrapped("mul4")
    /\ fns[2] = Wrapped("add2")
    /\ fns[3] = Composed("^", 1, 2)
    /\ ~HasCalledFn

C19_WitnessOne ==
    /\ HasCalledFn
    /\ fns[flast.target] = Composed("^", 1, 2)
    /\ flast.arg = 0
    /\ Truthy(flast.out)

----------------------------------------------------------------------------
(* pipe, pipeline, compose: claims *)

\* the latest expression evaluated is of this kind
Is(kind) == "kind" \in DOMAIN flast /\ flast.kind = kind

Compose2(f, g) == Pipelined("compose", <<f, g>>)

\* C13: compose(compose(f, g), h)(x) equals compose(f, compose(g, h))(x), and
\* composing a function with the identity on either side leaves its results
\* unchanged.
C13_ComposeAssociative ==
    Is("nested") =>
        LET l == flast.funcs[1]
            r == flast.funcs[2]
            x == flast.arg
        IN  /\ (l.op = "compose" /\ r.op = "fn") =>
                  LET other == apply(Compose2(l.funcs[1], Compose2(l.funcs[2], r)), x)
                  IN  /\ flast.out = other.out
                      /\ flast.trace = other.trace
            /\ (l.op = "fn" /\ r.op = "compose") =>
                  LET other == apply(Compose2(Compose2(l, r.funcs[1]), r.funcs[2]), x)
                  IN  /\ flast.out = other.out
                      /\ flast.trace = other.trace
            /\ l = Wrapped("fn") => flast.out = apply(r, x).out
            /\ r = Wrapped("fn") => flast.out = apply(l, x).out

\* compose(compose(mul4, add2), mul4)(10) has returned mul4(add2(mul4(10)))
C13_Witness ==
    /\ Is("nested")
    /\ flast.funcs = <<Compose2(Wrapped("mul4"), Wrapped("add2")), Wrapped("mul4")>>
    /\ flast.arg = 10
    /\ flast.out = 168
    /\ flast.trace = <<Invoked("mul4", 10), Invoked("add2", 40), Invoked("mul4", 42)>>

\* compose(fn, compose(mul4, add2))(10) has returned mul4(add2(10))
C13_WitnessIdentity ==
    /\ Is("nested")
    /\ flast.funcs = <<Wrapped("fn"), Compose2(Wrapped("mul4"), Wrapped("add2"))>>
    /\ flast.arg = 10
    /\ flast.out = 48

\* C18: pipeline(f1, ..., fn)(x) equals pipe(x, f1, ..., fn), which calls f1
\* first and fn last, and compose(f1, ..., fn)(x) equals
\* pipeline(fn, ..., f1)(x).
C18_PipelinePipeCompose ==
    /\ Is("pipeline") =>
          /\ flast.out = pipe(flast.arg, flast.funcs).out
          /\ flast.trace = pipe(flast.arg, flast.funcs).trace
    /\ Is("pipe") =>
          /\ Len(flast.trace) = Len(flast.funcs)
          /\ \A i \in 1..Len(flast.funcs) : flast.trace[i].name = flast.funcs[i].name
          /\ flast.funcs # <<>> =>
                /\ flast.trace[1].arg = flast.arg
                /\ flast.out = BaseBody(flast.trace[Len(flast.trace)].name,
                                        flast.trace[Len(flast.trace)].arg)
          /\ \A i \in 2..Len(flast.funcs) :
                flast.trace[i].arg = BaseBody(flast.trace[i - 1].name,
                                              flast.trace[i - 1].arg)
    /\ Is("compose") =>
          LET p == apply(Pipelined("pipeline", Reversed(flast.funcs)), flast.arg)
          IN  /\ flast.out = p.out
              /\ flast.trace = p.trace

\* pipeline(mul4, add2, mul4)(10) has called mul4(10), add2(40), mul4(42)
C18_Witness ==
    /\ Is("pipeline")
    /\ flast.funcs = <<Wrapped("mul4"), Wrapped("add2"), Wrapped("mul4")>>
    /\ flast.arg = 10
    /\ flast.out = 168
    /\ flast.trace = <<Invoked("mul4", 10), Invoked("add2", 40), Invoked("mul4", 42)>>

\* compose(add2, mul4)(10) has returned 42, as in the documentation
C18_WitnessCompose ==
    /\ Is("compose")
    /\ flast.funcs = <<Wrapped("add2"), Wrapped("mul4")>>
    /\ flast.arg = 10
    /\ flast.out = 42

----------------------------------------------------------------------------
(* arity inference, partial application, placeholders: claims *)

\* C14: the inferred arity is the number of declared required positional
\* parameters; parameters with a default, *args and **kwargs are not counted.
C14_ArityCountsRequired ==
    Is("arity") =>
        /\ flast.out = Cardinality({i \in DOMAIN flast.params :
                                       flast.params[i] = "required"})
        /\ flast.params = <<"required", "required">> => flast.out = 2

\* the arity of lambda x, y, *args, **kwargs has been inferred as 2
C14_Witness ==
    /\ Is("arity")
    /\ flast.params = <<"required", "required", "varargs", "varkw">>
    /\ flast.out = 2

\* C16: partial(f, a, ...) called with fewer arguments than f still requires
\* calls f, which raises its missing-argument TypeError; the call does not
\* return a further partial application.
C16_PartialDoesNotCurry ==
    (Is("partial") /\
        Len(flast.bound) + Len(flast.args) < Len(Params(flast.func))) =>
        /\ flast.out = Raise("TypeError")
        /\ flast.calls = <<Single(flast.bound \o flast.args, EmptyKw)>>

\* partial(g, 1)(0) has called g(1, 0), which raised TypeError
C16_Witness ==
    /\ Is("partial")
    /\ flast.func = "g"
    /\ flast.bound = <<1>>
    /\ flast.args = <<0>>
    /\ flast.out = Raise("TypeError")
    /\ Len(flast.calls) = 1

\* C17: in g[...](x) with placeholders, x goes to every placeholder position
\* and the other positions keep their values; g[1, 2](3), g[_, 2, 3](1) and
\* g[1, _, 3](2) are g(1, 2, 3), and g[_, _, _](1) is g(1, 1, 1).
C17_PlaceholderSubstitution ==
    Is("bracket") =>
        LET t == flast.template
            x == flast.arg
        IN  /\ (HasPlaceholder(t) /\ Len(t) = 3) =>
                  flast.out = Value(<<IF t[1] = Placeholder THEN x ELSE t[1],
                                      IF t[2] = Placeholder THEN x ELSE t[2],
                                      IF t[3] = Placeholder THEN x ELSE t[3]>>)
            /\ (<<t, x>> \in {<<(<<1, 2>>), 3>>, <<(<<Placeholder, 2, 3>>), 1>>,
                               <<(<<1, Placeholder, 3>>), 2>>}) =>
                  flast.out = func_call("g", <<1, 2, 3>>, EmptyKw)
            /\ (t = <<Placeholder, Placeholder, Placeholder>> /\ x = 1) =>
                  flast.out = func_call("g", <<1, 1, 1>>, EmptyKw)

\* g[_, _, _](1) has returned (1, 1, 1)
C17_Witness ==
    /\ Is("bracket")
    /\ flast.template = <<Placeholder, Placeholder, Placeholder>>
    /\ flast.arg = 1
    /\ flast.out = Value(<<1, 1, 1>>)

\* g[1, _, 3](2) has returned (1, 2, 3)
C17_WitnessMiddle ==
    /\ Is("bracket")
    /\ flast.template = <<1, Placeholder, 3>>
    /\ flast.arg = 2
    /\ flast.out = Value(<<1, 2, 3>>)

----------------------------------------------------------------------------
(* The recorded arity: claims *)

----------------------------------------------------------------------------
(* once: claims *)

\* C20: the body of a function wrapped with once runs at the first call and
\* at no other: it has run at most once in every state, the first call runs
\* it and returns its value, and every later call returns the value of the
\* first call without running it.
C20_OnceRunsBodyOnce ==
    /\ \A p \in 1..Len(heap) :
          /\ heap[p].runs = (IF heap[p].calls = 0 THEN 0 ELSE 1)
          /\ heap[p].calls > 0 => heap[p].first = once_body(heap[p].body, 1)
    /\ HasCalled =>
          /\ last.out = heap[last.target].first
          /\ last.ran <=> (last.nth = 1)

\* pop wrapped with once has been called twice: the second call has returned
\* 3 again and the body has run once
C20_Witness ==
    /\ HasCalled
    /\ heap[last.target].body = "pop"
    /\ last.nth = 2
    /\ last.out = 3
    /\ ~last.ran
    /\ heap[last.target].runs = 1

----------------------------------------------------------------------------
(* curry: the call without arguments *)

\* C28: a call F() of the curried function, of arity 1 or more, does not call
\* the underlying callable and returns a new closure with nothing bound; a
\* call of that closure with args returns what F(*args) returns: the result
\* of the callable on args when they number arity or more, and a closure
\* holding exactly args when they are fewer.
C28_EmptyCallBindsNothing ==
    HasCalled =>
        /\ (last.target = Root /\ last.args = <<>>) =>
              /\ prog.arity >= 1
              /\ last.out = Deferred(Len(heap))
              /\ heap[last.out.ref].used_args = <<>>
              /\ heap[last.out.ref].used_kwargs = EmptyKw
              /\ last.calls = NoCall
        /\ (last.target # Root /\ heap[last.target].trail.supplied = <<>>) =>
              /\ heap[last.target].used_args = <<>>
              /\ IF Len(last.args) >= prog.arity
                 THEN /\ last.out = func_call(prog.func, last.args, EmptyKw)
                      /\ last.calls = <<Single(last.args, EmptyKw)>>
                 ELSE /\ last.out = Deferred(Len(heap))
                      /\ heap[last.out.ref].used_args = last.args
                      /\ last.calls = NoCall

\* curry(2, impl)()(1, 1) has returned 2, as impl(1, 1) does
C28_Witness ==
    /\ prog = [func |-> "impl", arity |-> 2, kw |-> FALSE]
    /\ HasCalled
    /\ last.target = 2
    /\ heap[2].trail.parent = Root
    /\ heap[2].used_args = <<>>
    /\ last.args = <<1, 1>>
    /\ last.out = Value(2)
    /\ last.calls = <<Single(<<1, 1>>, EmptyKw)>>

----------------------------------------------------------------------------
(* sk.call_at_most, sk.call_after, sk.throttle, sk.retry: heap holds the
   wrapper of the run, prog.now is the clock *)

\* largest n given to call_at_most, call_after and retry
MaxN == 2
\* largest number of calls of one wrapper
MaxCalls == 4
\* latest time on the clock
MaxTime == 4

\* what a function without a return statement returns
None == [kind |-> "none"]

\* the list whose pop method is wrapped: lst = [1, 2, 3], numbers = [1, 2, 3, 4]
InitialList == [i \in 1..MaxCalls |-> i]

\* the values given to push
PushVals == 0..3

\* lst.pop()
pop(lst) == [lst |-> Front(lst), out |-> Value(lst[Len(lst)])]

\* lst.append(x)
append(lst, x) == [lst |-> Append(lst, x), out |-> None]

\* sk.call_at_most(n, lst.pop)
call_at_most_init(n) ==
    [kind |-> "call_at_most", n |-> n, count |-> 0, result |-> None,
     lst |-> InitialList]

\* one call more reaches the function
call_at_most_inclusive(self) ==
    IF self.count <= self.n
    THEN LET r == pop(self.lst)
         IN  [self |-> [self EXCEPT !.count = self.count + 1, !.result = r.out,
                                    !.lst = r.lst],
              out |-> r.out]
    ELSE [self |-> self, out |-> self.result]

\* a call: the first n reach the function, the others return the result kept
call_at_most_call(self) ==
    IF self.count < self.n
    THEN LET r == pop(self.lst)
         IN  [self |-> [self EXCEPT !.count = self.count + 1, !.result = r.out,
                                    !.lst = r.lst],
              out |-> r.out]
    ELSE [self |-> self, out |-> self.result]

\* sk.call_after(n, lst.append)
call_after_init(n) == [kind |-> "call_after", n |-> n, count |-> 0, lst |-> <<>>]

\* the n-th call reaches the function already
call_after_early(self, x) ==
    IF self.count + 1 < self.n
    THEN [self |-> [self EXCEPT !.count = self.count + 1], out |-> None]
    ELSE LET r == append(self.lst, x)
         IN  [self |-> [self EXCEPT !.lst = r.lst], out |-> r.out]

\* a call: the first n are dropped, the others reach the function
call_after_call(self, x) ==
    IF self.count < self.n
    THEN [self |-> [self EXCEPT !.count = self.count + 1], out |-> None]
    ELSE LET r == append(self.lst, x)
         IN  [self |-> [self EXCEPT !.lst = r.lst], out |-> r.out]

\* sk.throttle(dt, numbers.pop)
throttle_init(dt) ==
    [kind |-> "throttle", dt |-> dt, started |-> FALSE, last_time |-> 0,
     result |-> None, lst |-> InitialList]

\* the time is measured from the last call, not from the last run of the
\* function
throttle_from_last_call(self, now) ==
    IF ~self.started \/ now - self.last_time >= self.dt
    THEN LET r == pop(self.lst)
         IN  [self |-> [self EXCEPT !.started = TRUE, !.last_time = now,
                                    !.result = r.out, !.lst = r.lst],
              out |-> r.out]
    ELSE [self |-> [self EXCEPT !.last_time = now], out |-> self.result]

\* a call at time now
throttle_call(self, now) ==
    IF ~self.started \/ now - self.last_time >= self.dt
    THEN LET r == pop(self.lst)
         IN  [self |-> [self EXCEPT !.started = TRUE, !.last_time = now,
                                    !.result = r.out, !.lst = r.lst],
              out |-> r.out]
    ELSE [self |-> self, out |-> self.result]

\* sk.retry(n, likely_to_fail)
retry_init(n) == [kind |-> "retry", n |-> n]

\* what the runs of likely_to_fail do, one after the other
Outcomes == {Raise("ValueError"), Value(42), Value(43)}
OutcomeSeqs == [1..(MaxN + 1) -> Outcomes]

\* the first run and n more
retry_call_extra(self, outcomes) ==
    LET ok == {i \in 1..(self.n + 1) : outcomes[i].kind = "value"}
    IN  IF ok = {} THEN [out |-> outcomes[self.n + 1], runs |-> self.n + 1]
        ELSE LET i == CHOOSE j \in ok : \A k \in ok : j <= k
             IN  [out |-> outcomes[i], runs |-> i]

\* a call: the function runs until it returns, n times at most; the error of
\* the last run is the caller's
retry_call(self, outcomes) ==
    LET ok == {i \in 1..self.n : outcomes[i].kind = "value"}
    IN  IF ok = {} THEN [out |-> outcomes[self.n], runs |-> self.n]
        ELSE LET i == CHOOSE j \in ok : \A k \in ok : j <= k
             IN  [out |-> outcomes[i], runs |-> i]

InitCtl ==
    /\ prog = [now |-> 0]
    /\ heap = <<>>
    /\ last = [target |-> 0]
    /\ fns = NoFns
    /\ flast = [target |-> 0]

\* the wrapper of the run; trace is the list of the calls made, which the
\* wrapper does not read
Wrapped1(obj) ==
    /\ heap = <<>>
    /\ heap' = <<obj @@ [trace |-> <<>>]>>
    /\ last' = [target |-> 0, made |-> 1]
    /\ UNCHANGED <<prog, fns, flast>>

CallAtMostWrap(n) == Wrapped1(call_at_most_init(n))

CallAfterWrap(n) == Wrapped1(call_after_init(n))

ThrottleWrap(dt) == Wrapped1(throttle_init(dt))

RetryWrap(n) == Wrapped1(retry_init(n))

\* the wrapper without the trace
Bare(obj) == [k \in DOMAIN obj \ {"trace"} |-> obj[k]]

\* pop()
CallAtMost(p) ==
    /\ heap[p].kind = "call_at_most"
    /\ Len(heap[p].trace) < MaxCalls
    /\ LET old == heap[p]
           r   == call_at_most_call(Bare(old))
           e   == [out |-> r.out, left |-> Len(r.self.lst)]
       IN  /\ heap' = [heap EXCEPT ![p] = r.self @@ [trace |-> Append(old.trace, e)]]
           /\ last' = [target |-> p, out |-> r.out]
    /\ UNCHANGED <<prog, fns, flast>>

\* push(x)
CallAfter(p, x) ==
    /\ heap[p].kind = "call_after"
    /\ Len(heap[p].trace) < MaxCalls
    /\ LET old == heap[p]
           r   == call_after_call(Bare(old), x)
           e   == [arg |-> x, out |-> r.out]
       IN  /\ heap' = [heap EXCEPT ![p] = r.self @@ [trace |-> Append(old.trace, e)]]
           /\ last' = [target |-> p, arg |-> x, out |-> r.out]
    /\ UNCHANGED <<prog, fns, flast>>

\* func()
ThrottleCall(p) ==
    /\ heap[p].kind = "throttle"
    /\ Len(heap[p].trace) < MaxCalls
    /\ LET old == heap[p]
           r   == throttle_call(Bare(old), prog.now)
           e   == [at |-> prog.now, out |-> r.out, left |-> Len(r.self.lst)]
       IN  /\ heap' = [heap EXCEPT ![p] = r.self @@ [trace |-> Append(old.trace, e)]]
           /\ last' = [target |-> p, out |-> r.out]
    /\ UNCHANGED <<prog, fns, flast>>

\* sleep
Sleep ==
    /\ prog.now < MaxTime
    /\ prog' = [prog EXCEPT !.now = prog.now + 1]
    /\ UNCHANGED <<heap, last, fns, flast>>

\* safe()
RetryCall(p, outcomes) ==
    /\ heap[p].kind = "retry"
    /\ LET r == retry_call(Bare(heap[p]), outcomes)
       IN  last' = [target |-> p, outcomes |-> outcomes, out |-> r.out,
                    runs |-> r.runs]
    /\ UNCHANGED <<prog, heap, fns, flast>>

NextCtl ==
    \/ \E n \in 1..MaxN : CallAtMostWrap(n)
    \/ \E n \in 1..MaxN : CallAfterWrap(n)
    \/ \E dt \in 1..(MaxN + 1) : ThrottleWrap(dt)
    \/ \E n \in 1..MaxN : RetryWrap(n)
    \/ \E p \in 1..Len(heap) : CallAtMost(p)
    \/ \E p \in 1..Len(heap), x \in PushVals : CallAfter(p, x)
    \/ \E p \in 1..Len(heap) : ThrottleCall(p)
    \/ Sleep
    \/ \E p \in 1..Len(heap), outcomes \in OutcomeSeqs : RetryCall(p, outcomes)

SpecCtl == InitCtl /\ [][NextCtl]_vars

----------------------------------------------------------------------------
(* call_at_most, call_after, throttle, retry: claims *)

\* the number of runs of the function a list of calls should make
AtMost(i, n) == IF i <= n THEN i ELSE n

\* C21: over every list of calls of g = call_at_most(n, lst.pop), the i-th
\* call runs the function if and only if i <= n, so the function has run
\* min(i, n) times after it, and the calls after the n-th return the result
\* of the n-th run.
C21_CallAtMost ==
    \A p \in 1..Len(heap) :
        heap[p].kind = "call_at_most" =>
            \A i \in 1..Len(heap[p].trace) :
                /\ heap[p].trace[i].left =
                      Len(InitialList) - AtMost(i, heap[p].n)
                /\ heap[p].trace[i].out =
                      Value(InitialList[Len(InitialList) + 1 - AtMost(i, heap[p].n)])

\* call_at_most(2, lst.pop) called four times has returned 4, 3, 3, 3 and
\* popped two items
C21_Witness ==
    /\ Len(heap) = 1
    /\ heap[1].kind = "call_at_most"
    /\ heap[1].n = 2
    /\ [i \in 1..Len(heap[1].trace) |-> heap[1].trace[i].out]
          = <<Value(4), Value(3), Value(3), Value(3)>>
    /\ heap[1].lst = <<1, 2>>

\* C22: over every list of calls of g = call_after(n, lst.append), the list
\* holds the arguments of the calls after the n-th, in the order of the
\* calls, and nothing else: the first n calls do not run the function and
\* each later call runs it on its own argument.
C22_CallAfter ==
    \A p \in 1..Len(heap) :
        heap[p].kind = "call_after" =>
            LET t == heap[p].trace
                n == heap[p].n
            IN  IF Len(t) <= n
                THEN heap[p].lst = <<>>
                ELSE heap[p].lst = [i \in 1..(Len(t) - n) |-> t[n + i].arg]

\* push = call_after(1, lst.append); push(0); push(1); push(2); push(3)
\* leaves lst == [1, 2, 3]
C22_Witness ==
    /\ Len(heap) = 1
    /\ heap[1].kind = "call_after"
    /\ heap[1].n = 1
    /\ [i \in 1..Len(heap[1].trace) |-> heap[1].trace[i].arg] = <<0, 1, 2, 3>>
    /\ heap[1].lst = <<1, 2, 3>>

----------------------------------------------------------------------------
(* Result: sk.rcall, sk.result_fn and Result.map, evaluated on their own *)

Ok(v) == [kind |-> "ok", value |-> v]
Err(e) == [kind |-> "err", error |-> e]

\* the functions mapped over results
MapNames == {"mul4", "add2", "sqrt"}

\* math.sqrt, kept exact: an integer when x is a square
sqrt(x) ==
    IF x < 0 THEN Raise("ValueError")
    ELSE IF \E r \in 0..x : r * r = x
         THEN Value(CHOOSE r \in 0..x : r * r = x)
         ELSE Value([sqrt |-> x])

MapBody(name, v) ==
    IF name = "sqrt" THEN sqrt(v) ELSE Value(BaseBody(name, v))

\* the results given to map
Results == {Ok(x) : x \in X} \cup
           {Err(e) : e \in {"ZeroDivisionError", "TypeError", "ValueError"}}

\* the error of f reaches the caller
rcall_unsafe(f, args) ==
    LET r == func_call(f, args, EmptyKw)
    IN  IF r.kind = "raise" THEN r ELSE Ok(r.val)

\* sk.rcall(f, *args)
rcall(f, args) ==
    LET r == func_call(f, args, EmptyKw)
    IN  IF r.kind = "raise" THEN Err(r.exc) ELSE Ok(r.val)

\* sk.result_fn(f)(*args)
result_fn(f, args) == rcall(f, args)

\* res.map(name); calls lists the values the mapped function was called on
result_map(res, name) ==
    IF res.kind = "err" THEN [out |-> res, calls |-> <<>>]
    ELSE LET r == MapBody(name, res.value)
         IN  [out |-> IF r.kind = "raise" THEN Err(r.exc) ELSE Ok(r.val),
              calls |-> <<res.value>>]

CallRcall(f, args) ==
    /\ flast' = Evaluated("rcall", [f |-> f, args |-> args, out |-> rcall(f, args)])
    /\ UNCHANGED <<prog, heap, last, fns>>

CallResultFn(f, args) ==
    /\ flast' = Evaluated("result_fn",
                          [f |-> f, args |-> args, out |-> result_fn(f, args)])
    /\ UNCHANGED <<prog, heap, last, fns>>

CallMap(res, name) ==
    /\ LET r == result_map(res, name)
       IN  flast' = Evaluated("map", [res |-> res, f |-> name, out |-> r.out,
                                      calls |-> r.calls])
    /\ UNCHANGED <<prog, heap, last, fns>>

NextRes ==
    \/ \E f \in Funcs, args \in ArgTuples(3) : CallRcall(f, args)
    \/ \E f \in Funcs, args \in ArgTuples(3) : CallResultFn(f, args)
    \/ \E res \in Results, name \in MapNames : CallMap(res, name)

SpecRes == InitExpr /\ [][NextRes]_vars

----------------------------------------------------------------------------
(* Result: claims *)

\* C24: rcall(f, *args) returns Ok(v) when f(*args) returns v and Err(e) when
\* f(*args) raises e, and never lets the error through; map on an Err value
\* returns that value and does not call the mapped function.
C24_RcallAndMapOnErr ==
    /\ Is("rcall") =>
          LET r == func_call(flast.f, flast.args, EmptyKw)
          IN  /\ flast.out.kind \in {"ok", "err"}
              /\ r.kind = "value" => flast.out = Ok(r.val)
              /\ r.kind = "raise" => flast.out = Err(r.exc)
    /\ (Is("map") /\ flast.res.kind = "err") =>
          /\ flast.out = flast.res
          /\ flast.calls = <<>>

\* sk.rcall(div, 1, 0) has returned Err(ZeroDivisionError())
C24_Witness ==
    /\ Is("rcall")
    /\ flast.f = "div"
    /\ flast.args = <<1, 0>>
    /\ flast.out = Err("ZeroDivisionError")

\* bad.map(f) has returned bad
C24_WitnessMap ==
    /\ Is("map")
    /\ flast.res = Err("ZeroDivisionError")
    /\ flast.out = Err("ZeroDivisionError")
    /\ flast.calls = <<>>

----------------------------------------------------------------------------
(* misc.ObservableSeq: heap holds the sequence of the run *)

\* largest length of the sequence
MaxLen == 3
\* largest number of handlers registered for one signal
MaxHandlers == 2

\* the callbacks: echo prints its arguments, stop raises StopIteration, fail
\* raises another exception
Handlers == {"echo", "stop", "fail"}
\* the callbacks registered after insertions
PostHandlers == {"echo"}

\* handler(i, v): the exception it raises, if any
handler_call(h) ==
    CASE h = "echo" -> "none"
      [] h = "stop" -> "StopIteration"
      [] h = "fail" -> "ValueError"

\* the handlers of a signal are called in the order of their registration,
\* until one raises; log lists the calls made
RECURSIVE run_handlers(_, _, _, _)
run_handlers(signal, hs, i, v) ==
    IF hs = <<>> THEN [log |-> <<>>, exc |-> "none"]
    ELSE LET e    == [signal |-> signal, handler |-> hs[1], i |-> i, v |-> v]
             exc  == handler_call(hs[1])
             rest == run_handlers(signal, Tail(hs), i, v)
         IN  IF exc # "none" THEN [log |-> <<e>>, exc |-> exc]
             ELSE [log |-> <<e>> \o rest.log, exc |-> rest.exc]

\* list.insert(i, v)
list_insert(data, i, v) == SubSeq(data, 1, i) \o <<v>> \o SubSeq(data, i + 1, Len(data))

\* misc.ObservableSeq([])
ObservableSeq == [kind |-> "ObservableSeq", data |-> <<>>, pre |-> <<>>, post |-> <<>>]

\* StopIteration is silenced and the item is inserted all the same
insert_uncancelled(self, i, v) ==
    LET pre == run_handlers("pre-insert", self.pre, i, v)
    IN  IF pre.exc \notin {"none", "StopIteration"}
        THEN [self |-> self, out |-> Raise(pre.exc), log |-> pre.log]
        ELSE LET post == run_handlers("post-insert", self.post, i, v)
             IN  [self |-> [self EXCEPT !.data = list_insert(self.data, i, v)],
                  out |-> IF post.exc = "none" THEN None ELSE Raise(post.exc),
                  log |-> pre.log \o post.log]

\* lst.insert(i, v): StopIteration from a pre-insert handler cancels the
\* insertion, another exception interrupts it and reaches the caller
insert(self, i, v) ==
    LET pre == run_handlers("pre-insert", self.pre, i, v)
    IN  IF pre.exc = "StopIteration"
        THEN [self |-> self, out |-> None, log |-> pre.log]
        ELSE IF pre.exc # "none"
        THEN [self |-> self, out |-> Raise(pre.exc), log |-> pre.log]
        ELSE LET post == run_handlers("post-insert", self.post, i, v)
             IN  [self |-> [self EXCEPT !.data = list_insert(self.data, i, v)],
                  out |-> IF post.exc = "none" THEN None ELSE Raise(post.exc),
                  log |-> pre.log \o post.log]

InitObs ==
    /\ prog = [func |-> "impl", arity |-> 2, kw |-> FALSE]
    /\ heap = <<ObservableSeq>>
    /\ last = [target |-> 0]
    /\ fns = NoFns
    /\ flast = [target |-> 0]

\* lst.register('pre-insert', handler)
RegisterPre(p, h) ==
    /\ Len(heap[p].pre) < MaxHandlers
    /\ heap' = [heap EXCEPT ![p].pre = Append(heap[p].pre, h)]
    /\ last' = [target |-> p, op |-> "register"]
    /\ UNCHANGED <<prog, fns, flast>>

\* lst.register('post-insert', handler)
RegisterPost(p, h) ==
    /\ Len(heap[p].post) < MaxHandlers
    /\ heap' = [heap EXCEPT ![p].post = Append(heap[p].post, h)]
    /\ last' = [target |-> p, op |-> "register"]
    /\ UNCHANGED <<prog, fns, flast>>

\* an insertion as the caller sees it; before is the content it found
Inserted(p, i, v, r) ==
    [target |-> p, op |-> "insert", i |-> i, v |-> v, before |-> heap[p].data,
     out |-> r.out, log |-> r.log]

\* lst.insert(i, v)
ObsInsert(p, i, v) ==
    /\ Len(heap[p].data) < MaxLen
    /\ i \in 0..Len(heap[p].data)
    /\ LET r == insert(heap[p], i, v)
       IN  /\ heap' = [heap EXCEPT ![p] = r.self]
           /\ last' = Inserted(p, i, v, r)
    /\ UNCHANGED <<prog, fns, flast>>

\* lst.append(v)
ObsAppend(p, v) ==
    /\ Len(heap[p].data) < MaxLen
    /\ LET r == insert(heap[p], Len(heap[p].data), v)
       IN  /\ heap' = [heap EXCEPT ![p] = r.self]
           /\ last' = Inserted(p, Len(heap[p].data), v, r)
    /\ UNCHANGED <<prog, fns, flast>>

NextObs ==
    \/ \E p \in 1..Len(heap), h \in Handlers : RegisterPre(p, h)
    \/ \E p \in 1..Len(heap), h \in PostHandlers : RegisterPost(p, h)
    \/ \E p \in 1..Len(heap), i \in 0..MaxLen, v \in Vals : ObsInsert(p, i, v)
    \/ \E p \in 1..Len(heap), v \in Vals : ObsAppend(p, v)

SpecObs == InitObs /\ [][NextObs]_vars

----------------------------------------------------------------------------
(* ObservableSeq: claims *)

\* C25: when a pre-insert handler has raised StopIteration during an
\* insertion, the sequence holds what it held before the insertion, no
\* post-insert handler has been called for it, and the insertion has
\* returned to its caller without an exception.
C25_StopIterationCancelsInsert ==
    (HasCalled /\ last.op = "insert"
       /\ \E k \in 1..Len(last.log) :
             /\ last.log[k].signal = "pre-insert"
             /\ handler_call(last.log[k].handler) = "StopIteration") =>
        /\ heap[last.target].data = last.before
        /\ \A k \in 1..Len(last.log) : last.log[k].signal # "post-insert"
        /\ last.out = None

\* with echo registered post-insert and stop registered pre-insert, append(1)
\* on [0] has left [0] and called stop only
C25_Witness ==
    /\ HasCalled
    /\ last.op = "insert"
    /\ heap[last.target].post = <<"echo">>
    /\ heap[last.target].pre = <<"stop">>
    /\ last.before = <<0>>
    /\ last.v = 1
    /\ last.i = 1
    /\ [k \in 1..Len(last.log) |-> last.log[k].handler] = <<"stop">>
    /\ heap[last.target].data = <<0>>
    /\ last.out = None

----------------------------------------------------------------------------
(* misc.InvMap: heap holds the map and its inverse *)

\* largest key and largest value of the maps
MaxKey == 2

\* the keys of a map are the values of its inverse
Items == 0..MaxKey

\* del d[k], when k is there
Drop(d, k) == [x \in DOMAIN d \ {k} |-> d[x]]

\* d[k] = v on a dict
Put(d, k, v) == [x \in DOMAIN d \cup {k} |-> IF x = k THEN v ELSE d[x]]

EmptyMap == [x \in {} |-> 0]

\* misc.InvMap(): the map is heap[1] and its inverse heap[2]
InvMap == <<[kind |-> "InvMap", data |-> EmptyMap, inv |-> 2],
            [kind |-> "InvMap", data |-> EmptyMap, inv |-> 1]>>

\* the value the key had stays in the inverse
setitem_stale(direct, inverse, k, v, evict) ==
    IF v \in DOMAIN inverse /\ inverse[v] # k /\ ~evict
    THEN [direct |-> direct, inverse |-> inverse, out |-> Raise("ValueError")]
    ELSE LET d1 == IF v \in DOMAIN inverse THEN Drop(direct, inverse[v]) ELSE direct
         IN  [direct |-> Put(d1, k, v), inverse |-> Put(inverse, v, k), out |-> None]

\* m[k] = v, on the two dicts of m: the pair the key had is removed; when the
\* value belongs to another key the assignment is either refused or removes
\* that key, which the documentation leaves open (evict)
setitem(direct, inverse, k, v, evict) ==
    IF v \in DOMAIN inverse /\ inverse[v] # k /\ ~evict
    THEN [direct |-> direct, inverse |-> inverse, out |-> Raise("ValueError")]
    ELSE LET d1 == IF v \in DOMAIN inverse THEN Drop(direct, inverse[v]) ELSE direct
             i1 == IF k \in DOMAIN direct THEN Drop(inverse, direct[k]) ELSE inverse
         IN  [direct |-> Put(d1, k, v), inverse |-> Put(i1, v, k), out |-> None]

InitInv ==
    /\ prog = [func |-> "impl", arity |-> 2, kw |-> FALSE]
    /\ heap = InvMap
    /\ last = [target |-> 0]
    /\ fns = NoFns
    /\ flast = [target |-> 0]

\* m[k] = v or m.inv[k] = v, as p is m or m.inv; before is the content found
SetItem(p, k, v, evict) ==
    /\ LET q == heap[p].inv
           r == setitem(heap[p].data, heap[q].data, k, v, evict)
       IN  /\ heap' = [heap EXCEPT ![p].data = r.direct, ![q].data = r.inverse]
           /\ last' = [target |-> p, k |-> k, v |-> v, before |-> heap[p].data,
                       out |-> r.out]
    /\ UNCHANGED <<prog, fns, flast>>

NextInv ==
    \E p \in 1..Len(heap), k \in Items, v \in Items, evict \in BOOLEAN :
        SetItem(p, k, v, evict)

SpecInv == InitInv /\ [][NextInv]_vars

----------------------------------------------------------------------------
(* InvMap: claims *)

C26_WitnessThroughInverse ==
    /\ HasCalled
    /\ last.target = 2
    /\ last.before = Put(EmptyMap, 1, 1)
    /\ last.k = 2
    /\ last.v = 0
    /\ heap[1].data = Put(Put(EmptyMap, 1, 1), 0, 2)

----------------------------------------------------------------------------
(* sk.lazy: heap holds the instance of Vec of the run *)

\* the coordinates given to Vec
Coords == {<<3, 4>>, <<6, 8>>, <<0, 1>>}

\* the values assigned to the attribute
Assigned == {0, 42}

\* def magnitude(self): return math.sqrt(self.x**2 + self.y**2)
magnitude(self) == sqrt(self.x * self.x + self.y * self.y).val

\* Vec(x, y): the attribute is not in the instance yet
Vec(x, y) == [kind |-> "Vec", x |-> x, y |-> y, has |-> FALSE, value |-> 0]

\* the initializer runs at every read, as the getter of a property does
property_get(self) == [self |-> self, out |-> magnitude(self), ran |-> TRUE]

\* v.magnitude: the first read runs the initializer and keeps its value in
\* the instance
lazy_get(self) ==
    IF self.has THEN [self |-> self, out |-> self.value, ran |-> FALSE]
    ELSE [self |-> [self EXCEPT !.has = TRUE, !.value = magnitude(self)],
          out |-> magnitude(self), ran |-> TRUE]

\* v.magnitude = value
lazy_set(self, value) == [self EXCEPT !.has = TRUE, !.value = value]

InitLazy ==
    /\ prog = [func |-> "impl", arity |-> 2, kw |-> FALSE]
    /\ heap = <<>>
    /\ last = [target |-> 0]
    /\ fns = NoFns
    /\ flast = [target |-> 0]

\* the instance without the history of its reads and assignments
Instance(obj) ==
    [kind |-> obj.kind, x |-> obj.x, y |-> obj.y, has |-> obj.has,
     value |-> obj.value]

\* v = Vec(x, y); reads counts the reads of the attribute and runs the runs of
\* the initializer, both capped at 2, first is the value of the first read
\* and written tells whether the attribute has been assigned: the instance
\* reads none of them
NewVec(c) ==
    /\ heap = <<>>
    /\ heap' = <<Vec(c[1], c[2]) @@
                 [reads |-> 0, runs |-> 0, first |-> 0, written |-> FALSE]>>
    /\ last' = [target |-> 0, made |-> 1]
    /\ UNCHANGED <<prog, fns, flast>>

Capped(n) == IF n < 2 THEN n + 1 ELSE 2

\* v.magnitude
ReadLazy(p) ==
    /\ LET old == heap[p]
           r   == lazy_get(Instance(old))
           nth == Capped(old.reads)
       IN  /\ heap' = [heap EXCEPT ![p] =
                          r.self @@ [reads |-> nth,
                                     runs |-> IF r.ran THEN Capped(old.runs)
                                              ELSE old.runs,
                                     first |-> IF old.reads = 0 THEN r.out
                                               ELSE old.first,
                                     written |-> old.written]]
           /\ last' = [target |-> p, op |-> "read", out |-> r.out, ran |-> r.ran,
                       nth |-> nth]
    /\ UNCHANGED <<prog, fns, flast>>

\* v.magnitude = value
WriteLazy(p, value) ==
    /\ LET old == heap[p]
       IN  heap' = [heap EXCEPT ![p] =
                       lazy_set(Instance(old), value) @@
                       [reads |-> old.reads, runs |-> old.runs,
                        first |-> old.first, written |-> TRUE]]
    /\ last' = [target |-> p, op |-> "write", value |-> value]
    /\ UNCHANGED <<prog, fns, flast>>

\* v.x, v.y = x, y
MoveVec(p, c) ==
    /\ <<heap[p].x, heap[p].y>> # c
    /\ heap' = [heap EXCEPT ![p].x = c[1], ![p].y = c[2]]
    /\ last' = [target |-> p, op |-> "move"]
    /\ UNCHANGED <<prog, fns, flast>>

NextLazy ==
    \/ \E c \in Coords : NewVec(c)
    \/ \E p \in 1..Len(heap) : ReadLazy(p)
    \/ \E p \in 1..Len(heap), value \in Assigned : WriteLazy(p, value)
    \/ \E p \in 1..Len(heap), c \in Coords : MoveVec(p, c)

SpecLazy == InitLazy /\ [][NextLazy]_vars

----------------------------------------------------------------------------
(* lazy: claims *)

\* C27: the initializer of a lazy attribute has run at most once on an
\* instance; while the attribute has not been assigned, the first read runs
\* the initializer and returns its value and the later reads return the
\* value of the first read without running it; once the attribute has been
\* assigned, a read returns the value kept in the instance, the one assigned,
\* without running the initializer.
C27_LazyRunsOnceAndCaches ==
    /\ \A p \in 1..Len(heap) :
          /\ heap[p].runs <= 1
          /\ heap[p].written => heap[p].value \in Assigned
    /\ (HasCalled /\ last.op = "read") =>
          IF heap[last.target].written
          THEN /\ last.out = heap[last.target].value
               /\ ~last.ran
          ELSE IF last.nth = 1
          THEN /\ last.ran
               /\ last.out = magnitude(heap[last.target])
          ELSE /\ ~last.ran
               /\ last.out = heap[last.target].first

\* v = Vec(3, 4); v.magnitude; v.x, v.y = 6, 8; v.magnitude has returned 5
\* again and the initializer has run once
C27_Witness ==
    /\ HasCalled
    /\ last.op = "read"
    /\ last.nth = 2
    /\ ~last.ran
    /\ heap[last.target].x = 6
    /\ heap[last.target].first = 5
    /\ last.out = 5
    /\ ~heap[last.target].written
    /\ heap[last.target].runs = 1

\* v = Vec(3, 4); v.magnitude; v.magnitude = 42; v.magnitude has returned 42
C27_WitnessAssigned ==
    /\ HasCalled
    /\ last.op = "read"
    /\ heap[last.target].written
    /\ heap[last.target].first = 5
    /\ heap[last.target].x = 3
    /\ last.nth = 2
    /\ last.out = 42

----------------------------------------------------------------------------
(* misc.LazyList: heap holds the lazy list of the run *)

\* number of items of the iterator
MaxItems == 4

\* the items of the iterator: x**2 for x in range(MaxItems)
Source == [k \in 1..MaxItems |-> (k - 1) * (k - 1)]

\* misc.LazyList(x**2 for x in range(MaxItems)): head holds the items fetched,
\* tail the items added behind the iterator; pos is the position of the
\* iterator and log the positions it has yielded, in the order it yielded
\* them
LazyList ==
    [kind |-> "LazyList", head |-> <<>>, tail |-> <<>>, is_lazy |-> TRUE,
     pos |-> 0, log |-> <<>>]

\* next(iterator) until head holds n items or the iterator is exhausted
fetch(self, n) ==
    IF ~self.is_lazy \/ Len(self.head) >= n THEN self
    ELSE LET m == IF n <= MaxItems THEN n ELSE MaxItems
         IN  [self EXCEPT !.head = self.head \o SubSeq(Source, self.pos + 1, m),
                          !.pos = m,
                          !.log = self.log \o [k \in 1..(m - self.pos) |-> self.pos + k],
                          !.is_lazy = n <= MaxItems]

\* the item at index i of a list that has fetched what it needs
item(self, i) ==
    IF i < Len(self.head) THEN Value(self.head[i + 1])
    ELSE IF ~self.is_lazy /\ i < Len(self.head) + Len(self.tail)
    THEN Value(self.tail[i + 1 - Len(self.head)])
    ELSE Raise("IndexError")

\* the whole iterator is fetched, whatever the index
getitem_eager(self, i) ==
    [self |-> fetch(self, MaxItems), out |-> item(fetch(self, MaxItems), i)]

\* lst[i]
getitem(self, i) ==
    [self |-> fetch(self, i + 1), out |-> item(fetch(self, i + 1), i)]

\* lst.extend(items)
extend(self, items) == [self EXCEPT !.tail = self.tail \o items]

\* sum(lst)
sum(self) ==
    LET s == fetch(self, MaxItems + 1)
    IN  [self |-> s, out |-> Value(SumSeq(s.head \o s.tail))]

InitLL ==
    /\ prog = [func |-> "impl", arity |-> 2, kw |-> FALSE]
    /\ heap = <<LazyList>>
    /\ last = [target |-> 0]
    /\ fns = NoFns
    /\ flast = [target |-> 0]

\* lst[i]; before is the number of items fetched when the call was made
GetItem(p, i) ==
    /\ LET r == getitem(heap[p], i)
       IN  /\ heap' = [heap EXCEPT ![p] = r.self]
           /\ last' = [target |-> p, op |-> "getitem", i |-> i,
                       before |-> Len(heap[p].head), out |-> r.out]
    /\ UNCHANGED <<prog, fns, flast>>

\* lst.extend([x])
Extend(p, items) ==
    /\ Len(heap[p].tail) < MaxLen
    /\ heap' = [heap EXCEPT ![p] = extend(heap[p], items)]
    /\ last' = [target |-> p, op |-> "extend"]
    /\ UNCHANGED <<prog, fns, flast>>

\* sum(lst)
Sum(p) ==
    /\ LET r == sum(heap[p])
       IN  /\ heap' = [heap EXCEPT ![p] = r.self]
           /\ last' = [target |-> p, op |-> "sum", out |-> r.out]
    /\ UNCHANGED <<prog, fns, flast>>

NextLL ==
    \/ \E p \in 1..Len(heap), i \in 0..(MaxItems + 1) : GetItem(p, i)
    \/ \E p \in 1..Len(heap), x \in Vals : Extend(p, <<x>>)
    \/ \E p \in 1..Len(heap) : Sum(p)

SpecLL == InitLL /\ [][NextLL]_vars

----------------------------------------------------------------------------
(* LazyList: claims *)

\* C29: the iterator has yielded each of its positions once and in order,
\* and the list holds the items yielded, in that order; lst[i] leaves fetched
\* what was fetched before the call and the items up to index i that were
\* not, and nothing more; is_lazy is False only when the iterator has yielded
\* all its items.
C29_LazyListFetchesOnDemand ==
    \A p \in 1..Len(heap) :
        /\ heap[p].log = [k \in 1..Len(heap[p].log) |-> k]
        /\ heap[p].head = SubSeq(Source, 1, Len(heap[p].log))
        /\ ~heap[p].is_lazy => Len(heap[p].log) = MaxItems
        /\ (last.target = p /\ last.op = "getitem") =>
              /\ Len(heap[p].log) =
                    (IF last.i + 1 <= last.before THEN last.before
                     ELSE IF last.i + 1 <= MaxItems THEN last.i + 1
                     ELSE MaxItems)
              /\ last.i < MaxItems => last.out = Value(Source[last.i + 1])

\* lst[2] on a list that had fetched its first item has returned 4 and
\* fetched 1 and 4, once each; the list is still lazy
C29_Witness ==
    /\ last.target = 1
    /\ last.op = "getitem"
    /\ last.i = 2
    /\ last.before = 1
    /\ last.out = Value(4)
    /\ heap[1].head = <<0, 1, 4>>
    /\ heap[1].log = <<1, 2, 3>>
    /\ heap[1].is_lazy

====
